---- MODULE Spec2Model ----
(***************************************************************************)
(* A model of brian.py (BRIAN: continuum and emission line fitting of an   *)
(* IFU data cube).  Modelled are the row-wise checkpointed fit stages      *)
(* (run_fit_continuum, run_fit_elines), the cube assemblers                *)
(* (run_make_continuum_cube, run_make_elines_cube) and the aperture        *)
(* assignment (run_make_ap_cube).                                          *)
(*                                                                         *)
(* Conventions.  A cube is indexed [wavelength, y, x] in the code; here a  *)
(* spaxel is the pair <<y, x>> and a spectrum is a function over           *)
(* 0..NAXIS3-1.  Python indices are kept (they start at 0).  Numbers are   *)
(* integers; the floating point value nan is the distinguished value NaN   *)
(* and every arithmetic operator below propagates it as numpy does.        *)
(***************************************************************************)
EXTENDS Integers, Sequences, FiniteSets, TLC

VARIABLES
    \* the raw cube on disk (hdu[1].data, hdu[2].data of params['data_fn'])
    data, error,
    \* run_make_ap_cube: the pickled aperture list, the reference flux map, the
    \* processing order, the loop position and the three outputs
    start_aps, flux, sort_index, ap_i, ap_map, ap_spec_cube, ap_spec_err, ap_pc,
    \* the configuration of a fit stage: which function runs ("continuum" for
    \* run_fit_continuum, "elines" for run_fit_elines), its method argument, the
    \* params dictionary, the SNR maps of fn_list['snr_cube'] and, for the line
    \* fit, the continuum cubes of fn_list['lowess_cube'] and fn_list['ppxf_cube']
    stage, method, params, snr_cont, snr_elines, cont_lowess, cont_ppxf,
    \* the files of params['tmp_loc'] (row artifacts) and the fn_list dictionary
    files, fn_list,
    \* a fit run: its position, row range, current row, the run's own copy of
    \* the signal cube, the inputs of the current row, the spaxels of the row
    \* whose fit has returned, the row's results, the worker pool, and what the
    \* process reported when it ended
    pc, start_row, end_row, row, run_data, specs, done, conts, pool, exit_msg,
    \* the cubes a cube assembler wrote (run_make_continuum_cube,
    \* run_make_elines_cube), how its last call ended, and after how many fit
    \* runs it was called
    cont_cube, elines_fullspec_cube, elines_params_cube, elines_params_err,
    elines_fit_status, asm_pc, asm_at,
    \* history: the runs so far, and the files as they were when the run began
    hist, files0,
    \* the naming of row artifacts: the (method, row) of two writes and the
    \* file name fn each of them built
    name_args, name_fn

rawVars == <<data, error>>
apVars == <<start_aps, flux, sort_index, ap_i, ap_map, ap_spec_cube, ap_spec_err, ap_pc>>
cfgVars == <<stage, method, params, snr_cont, snr_elines, cont_lowess, cont_ppxf>>
runVars == <<pc, start_row, end_row, row, run_data, specs, done, conts, pool, exit_msg>>
asmVars == <<cont_cube, elines_fullspec_cube, elines_params_cube, elines_params_err,
             elines_fit_status, asm_pc, asm_at>>
fitVars == <<cfgVars, files, fn_list, runVars, asmVars, hist, files0>>
nameVars == <<name_args, name_fn>>
vars == <<rawVars, apVars, fitVars, nameVars>>

\* ------------------------------------------------------------------ bounds
\* header1['NAXIS1']: number of cube columns x, the "rows" of the fit loops
NAXIS1 == 2
\* header1['NAXIS2']: number of spaxels y in one row
NAXIS2 == 2
\* header1['NAXIS3']: number of wavelength samples of a spectrum
NAXIS3 == 1
\* largest number of apertures in the pickled aperture list
MaxAps == 2
\* the aperture radii (params['ap_radius'] and the radii set by hand)
Radii == 0..1
\* largest number of fit runs (first runs, re-runs, resumed runs) in a history
MaxRuns == 2
\* len(params['elines'].keys()): number of emission lines fitted
nlines == 2

\* ------------------------------------------------------------ numpy values
\* np.nan, encoded as a value outside the range of the numbers that occur
NaN == -1000000
\* None (a parameter that is not set)
None == -2000000

isnan(v) == v = NaN

\* a + b and a * b in floating point: nan if either operand is nan
Add(a, b) == IF isnan(a) \/ isnan(b) THEN NaN ELSE a + b
Sub(a, b) == IF isnan(a) \/ isnan(b) THEN NaN ELSE a - b
Mul(a, b) == IF isnan(a) \/ isnan(b) THEN NaN ELSE a * b

Xs == 0..(NAXIS1 - 1)
Ys == 0..(NAXIS2 - 1)
Lams == 0..(NAXIS3 - 1)
\* indices = np.mgrid[0:ny,0:nx]: every spaxel <<y, x>> of the map
indices == Ys \X Xs

\* np.zeros_like(data) * np.nan : a spectrum, a map and a cube of nan's
NaNSpec == [l \in Lams |-> NaN]
NaNMap == [s \in indices |-> NaN]
NaNCube == [s \in indices |-> NaNSpec]

RECURSIVE SumOver(_, _)
\* the sum of f over the finite set S
SumOver(S, f) ==
    IF S = {} THEN 0
    ELSE LET s == CHOOSE t \in S : TRUE
         IN  f[s] + SumOver(S \ {s}, f)

\* np.sum in place of np.nansum: one nan sample makes the sum nan
nansum_as_sum(cube, members) ==
    [l \in Lams |->
        IF \E s \in members : isnan(cube[s][l]) THEN NaN
        ELSE SumOver(members, [s \in indices |-> cube[s][l]])]

\* np.nansum(cube[:, members], axis=1): per wavelength, the sum over the member
\* spaxels with nan samples counted as zero (0 for an empty or all-nan slice)
nansum(cube, members) ==
    [l \in Lams |->
        SumOver({s \in members : ~isnan(cube[s][l])}, [s \in indices |-> cube[s][l]])]

\* --------------------------------------------------------------- raw inputs
\* The raw cubes the runs are given: spaxel number k = y*NAXIS1 + x carries the
\* signal 2^k * (l+1) and the error 2^k + 100 at wavelength l, so that a sum
\* over spaxels tells which spaxels entered it; kind d > 0 makes the signal
\* samples with (k + l) % (d+1) = 0 and the error samples with
\* (k + l) % (d+1) = 1 invalid (mosaic edges, masked samples).
SpaxelNo(s) == s[1] * NAXIS1 + s[2]

RECURSIVE Pow2(_)
Pow2(k) == IF k = 0 THEN 1 ELSE 2 * Pow2(k - 1)

RawKinds == 0..1

RawData(d) ==
    [s \in indices |-> [l \in Lams |->
        IF d > 0 /\ (SpaxelNo(s) + l) % (d + 1) = 0 THEN NaN
        ELSE Pow2(SpaxelNo(s)) * (l + 1)]]

RawError(d) ==
    [s \in indices |-> [l \in Lams |->
        IF d > 0 /\ (SpaxelNo(s) + l) % (d + 1) = 1 THEN NaN
        ELSE Pow2(SpaxelNo(s)) + 100]]

\* The reference flux maps (plane 0 of the reference line in the parameter
\* cube): peaks that differ, peaks that tie, and spaxels with no valid fit.
FluxPatterns == << <<1, 3, 2, NaN>>, <<2, 2, 1, 3>> >>

FluxMap(p) ==
    [s \in indices |-> FluxPatterns[p][(SpaxelNo(s) % Len(FluxPatterns[p])) + 1]]

\* The aperture lists: 1..MaxAps triples (x, y, r) with the centre on the map
ApLists ==
    UNION {[0..(n - 1) -> [x : Xs, y : Ys, r : Radii]] : n \in 1..MaxAps}

\* ---------------------------------------------------------- run_make_ap_cube
naps == Cardinality(DOMAIN start_aps)

\* fs = flux[ys,xs]: the peak reference value at the centre of aperture ind
fs(ind) == flux[<<start_aps[ind].y, start_aps[ind].x>>]

\* numpy's sort order: nan sorts after every number
SortsBefore(a, b) == ~isnan(a) /\ (isnan(b) \/ a < b)

\* np.argsort(fs) without the [::-1]: ascending order
IsArgsortReversed_ascending(so) ==
    /\ \A a \in DOMAIN start_aps : \E i \in DOMAIN so : so[i] = a
    /\ \A i, j \in DOMAIN so : i < j => ~SortsBefore(fs(so[j]), fs(so[i]))

\* np.argsort(fs)[::-1]: an argsort of fs in numpy's ascending order (nan
\* last), read backwards.  The default kind of np.argsort is not a stable
\* sort, so equal values may come out in either order.
IsArgsortReversed(so) ==
    /\ \A a \in DOMAIN start_aps : \E i \in DOMAIN so : so[i] = a
    /\ \A i, j \in DOMAIN so : i < j => ~SortsBefore(fs(so[i]), fs(so[j]))

ArgsortsReversed ==
    {so \in [DOMAIN start_aps -> DOMAIN start_aps] : IsArgsortReversed(so)}

\* the disk test with < in place of <=
in_ap_strict(ind) ==
    {s \in indices :
        (s[2] - start_aps[ind].x) * (s[2] - start_aps[ind].x)
          + (s[1] - start_aps[ind].y) * (s[1] - start_aps[ind].y)
        < start_aps[ind].r * start_aps[ind].r}

\* in_ap = (indices[1]-x)**2+(indices[0]-y)**2 <= r**2 for aperture ind
in_ap(ind) ==
    {s \in indices :
        (s[2] - start_aps[ind].x) * (s[2] - start_aps[ind].x)
          + (s[1] - start_aps[ind].y) * (s[1] - start_aps[ind].y)
        <= start_aps[ind].r * start_aps[ind].r}

\* ap_map[in_ap] = i: the np.isnan(ap_map) mask is dropped
AssignAp_overwrite(map, ind, i) ==
    [s \in indices |-> IF s \in in_ap(ind) THEN i ELSE map[s]]

\* ap_map[in_ap * np.isnan(ap_map)] = i
AssignAp(map, ind, i) ==
    [s \in indices |-> IF s \in in_ap(ind) /\ isnan(map[s]) THEN i ELSE map[s]]

\* the spaxels with ap_map == i
Members(map, i) == {s \in indices : map[s] = i}

\* lines 859-905: load the aperture list, the flux map and the raw cube, sort
\* the apertures and allocate the outputs
ApLoad ==
    /\ ap_pc = "start"
    /\ \E so \in ArgsortsReversed : sort_index' = so
    /\ ap_map' = NaNMap
    /\ ap_spec_cube' = NaNCube
    /\ ap_spec_err' = NaNCube
    /\ ap_i' = 0
    /\ ap_pc' = "loop"
    /\ UNCHANGED <<rawVars, nameVars, start_aps, flux, fitVars>>

\* lines 908-938: one pass of "for (i,ind) in enumerate(sort_index)"
ApIter ==
    /\ ap_pc = "loop"
    /\ ap_i < naps
    /\ LET i == ap_i
           ind == sort_index[i]
           map == AssignAp(ap_map, ind, i)
           spec == nansum(data, Members(map, i))
           err == nansum(error, Members(map, i))
       IN  /\ ap_map' = map
           /\ ap_spec_cube' =
                 [s \in indices |-> IF map[s] = i THEN spec ELSE ap_spec_cube[s]]
           /\ ap_spec_err' =
                 [s \in indices |-> IF map[s] = i THEN err ELSE ap_spec_err[s]]
    /\ ap_i' = ap_i + 1
    /\ UNCHANGED <<rawVars, nameVars, start_aps, flux, sort_index, ap_pc, fitVars>>

\* lines 940-986: the loop is over, the map and the cubes are written out
ApSave ==
    /\ ap_pc = "loop"
    /\ ap_i = naps
    /\ ap_pc' = "done"
    /\ UNCHANGED <<rawVars, nameVars, start_aps, flux, sort_index, ap_i, ap_map,
                   ap_spec_cube, ap_spec_err, fitVars>>

\* ------------------------------------------------- configuration of a stage
\* "if params[...]:" : a parameter that is None or 0 is not applied
Truthy(v) == v # None /\ v # 0

\* numpy's < and >= on an SNR map: False wherever the SNR is nan
Lt(a, b) == ~isnan(a) /\ a < b
Ge(a, b) == ~isnan(a) /\ a >= b
Gt(a, b) == ~isnan(a) /\ a > b

\* the rows of the fit loops are the cube columns x
Rows == Xs

\* The SNR maps written by run_snr_maps: a ratio clipped to >= 0, or nan where
\* the spaxel holds no data.  Map q gives spaxel number k the value
\* SnrPattern[(k + q) % Len + 1].
SnrPattern == <<1, 3, NaN, 0, 2>>

SnrMap(q) ==
    [s \in indices |-> SnrPattern[((SpaxelNo(s) + q) % Len(SnrPattern)) + 1]]

\* the thresholds params[method+'_snr_min'] and params[method+'_snr_max']
SnrMins == {None, 0, 2}
SnrMaxs == {None, 3}

\* params['multiprocessing']: False, a number of processes (an int), or True
Multiprocessing ==
    { [on |-> FALSE, isint |-> FALSE, n |-> 0],
      [on |-> TRUE, isint |-> TRUE, n |-> 2],
      [on |-> TRUE, isint |-> FALSE, n |-> 0] }

\* params['which_cont_sub']: SNR brackets 'llim->ulim' (ulim a number or 'max')
\* and the continuum to subtract in each
ContSubTables ==
    { <<>>,
      << [llim |-> 0, umax |-> TRUE, ulim |-> 0, src |-> "lowess"] >>,
      << [llim |-> 0, umax |-> FALSE, ulim |-> 4, src |-> "lowess"],
         [llim |-> 1, umax |-> TRUE, ulim |-> 0, src |-> "lowess"] >>,
      << [llim |-> 0, umax |-> FALSE, ulim |-> 1, src |-> "lowess"],
         [llim |-> 2, umax |-> TRUE, ulim |-> 0, src |-> "lowess"] >>,
      << [llim |-> 0, umax |-> FALSE, ulim |-> 2, src |-> "lowess"],
         [llim |-> 2, umax |-> TRUE, ulim |-> 0, src |-> "ppxf"] >> }

\* the method arguments given to run_fit_continuum
Methods == {"lowess", "ppxf", "median"}

\* ---------------------------------------------------------- fit strategies
\* the valid samples of a spectrum
Valid(spec) == {l \in Lams : ~isnan(spec[l])}

AllNaN(spec) == Valid(spec) = {}

\* the sum of the valid samples of a spectrum
Level(spec) == SumOver(Valid(spec), spec)

\* brian_cof.lowess_fit(spec, lams, frac, it): a smooth continuum of the length
\* of the spectrum; a spectrum with no valid sample gives an all-nan continuum
lowess_fit(spec) ==
    IF AllNaN(spec) THEN NaNSpec
    ELSE [l \in Lams |-> Level(spec) \div (2 * Cardinality(Valid(spec)))]

\* the indices of a parameter vector: 6 per line (reference wavelength,
\* amplitude, velocity, dispersion, h3, h4)
Planes == 0..(6 * nlines - 1)

\* brian_elf.els_mpfit([spec, err], lams, be, params): the fit record with the
\* 6N parameters, their standard errors and mpfit's status.  Status 1..4 is a
\* converged fit; 5 (iteration limit) and -16 (undefined values) are failures,
\* and a failed fit still carries a numeric parameter vector.  The reference
\* wavelength of line k is 3 + k; the numbers are kept small.
els_mpfit(specerr) ==
    LET spec == specerr[1]
        err == specerr[2]
        lev == IF AllNaN(spec) THEN 0 ELSE Level(spec)
        sig == IF AllNaN(err) THEN 0 ELSE Level(err) % 3
        one == <<3, lev % 7, lev % 2, 1 + sig, 0, 1>>
        oneerr == <<0, 1 + sig, 2, 1, 1, 0>>
    IN  [ params |-> [p \in Planes |-> one[(p % 6) + 1] + (IF p % 6 = 0 THEN p \div 6 ELSE 0)],
          perror |-> [p \in Planes |-> oneerr[(p % 6) + 1]],
          status |-> IF AllNaN(spec) THEN 0 - 16
                     ELSE IF lev < 0 THEN 5
                     ELSE 1 + (lev % 5) ]

\* ------------------------------------------------------------ row artifacts
RECURSIVE Digits(_)
\* str(n) for n >= 0: the decimal digits of n
Digits(n) == IF n < 10 THEN <<n>> ELSE Append(Digits(n \div 10), n % 10)

RECURSIVE zfill_cut(_, _)
\* a field of exactly width digits: the leading digits of a longer number
\* are cut
zfill_cut(ds, width) ==
    IF Len(ds) >= width THEN SubSeq(ds, Len(ds) - width + 1, Len(ds))
    ELSE zfill_cut(<<0>> \o ds, width)

RECURSIVE zfill(_, _)
\* str.zfill(width): zeros on the left up to width, never a cut
zfill(ds, width) == IF Len(ds) >= width THEN ds ELSE zfill(<<0>> \o ds, width)

\* suffix+'_'+params['target']+'_'+method+'_row_' (run_fit_continuum) and
\* suffix+'_'+params['target']+'_row_' (run_fit_elines)
ContinuumStem(m) ==
    CASE m = "lowess" -> "suffix_target_lowess_row_"
      [] m = "ppxf" -> "suffix_target_ppxf_row_"
      [] OTHER -> "suffix_target_median_row_"

ElinesStem == "suffix_target_row_"

\* os.path.join(params['tmp_loc'], stem + str(np.int(row)).zfill(4) + '.pkl')
PickleName(stem, r) == [stem |-> stem, digits |-> zfill(Digits(r), 4)]

Stems == {ContinuumStem(m) : m \in Methods} \cup {ElinesStem}

FileNames == {PickleName(st, r) : st \in Stems, r \in Rows}

\* The same names character by character, for the suffix 'suffix' and the
\* target 'target'.
SuffixChars == <<"s", "u", "f", "f", "i", "x">>
TargetChars == <<"t", "a", "r", "g", "e", "t">>

\* the method argument as characters
MethodChars(m) ==
    CASE m = "lowess" -> <<"l", "o", "w", "e", "s", "s">>
      [] m = "ppxf" -> <<"p", "p", "x", "f">>
      [] OTHER -> <<"m", "e", "d", "i", "a", "n">>

\* str(np.int(row)).zfill(4) as characters
DigitChars == <<"0", "1", "2", "3", "4", "5", "6", "7", "8", "9">>
RowChars(r) == [i \in DOMAIN zfill(Digits(r), 4) |-> DigitChars[zfill(Digits(r), 4)[i] + 1]]

\* lines 250-252: suffix+'_'+params['target']+'_'+method+'_row_'+
\*                str(np.int(row)).zfill(4)+'.pkl'
fn_continuum(m, r) ==
    SuffixChars \o <<"_">> \o TargetChars \o <<"_">> \o MethodChars(m)
      \o <<"_", "r", "o", "w", "_">> \o RowChars(r) \o <<".", "p", "k", "l">>

\* lines 476-478: suffix+'_'+params['target']+'_row_'+
\*                str(np.int(row)).zfill(4)+'.pkl'
fn_elines(r) ==
    SuffixChars \o <<"_">> \o TargetChars
      \o <<"_", "r", "o", "w", "_">> \o RowChars(r) \o <<".", "p", "k", "l">>

\* the stage and method of a write: the two continuum methods that have a
\* name of their own, and the line fit
Writers == {"lowess", "ppxf", "elines"}

\* row indices of up to six digits
RowIndices == {0, 1, 10, 100, 9999, 10000, 10001, 19999, 100000}

\* fn as the writer w builds it for row r
fn_of(w, r) == IF w = "elines" THEN fn_elines(r) ELSE fn_continuum(w, r)

\* one of the two writes builds its file name
MakeName(i) ==
    /\ i \in DOMAIN name_fn
    /\ name_fn[i] = <<>>
    /\ name_fn' = [name_fn EXCEPT ![i] = fn_of(name_args[i].w, name_args[i].row)]
    /\ UNCHANGED <<rawVars, apVars, fitVars, name_args>>

\* a file that does not exist, one that was opened for writing and holds no
\* complete pickle, and one that holds the pickled list
Absent == [st |-> "absent", items |-> <<>>]
Truncated == [st |-> "partial", items |-> <<>>]
Pickled(list) == [st |-> "full", items |-> list]

\* the stem of the stage that runs
Stem == IF stage = "continuum" THEN ContinuumStem(method) ELSE ElinesStem

\* the fn_list key under which the stem is kept
PickleKey ==
    IF stage = "elines" THEN "elines_pickle"
    ELSE CASE method = "lowess" -> "lowess_pickle"
           [] method = "ppxf" -> "ppxf_pickle"
           [] OTHER -> "median_pickle"

FnKeys == {"lowess_pickle", "ppxf_pickle", "median_pickle", "elines_pickle"}

\* ------------------------------------------------- the inputs of one row
\* the gate without its lower threshold
good_spaxels_continuum_nomin(r) ==
    [i \in Ys |->
        IF Truthy(params.snr_max) /\ Ge(snr_cont[<<i, r>>], params.snr_max)
        THEN NaN ELSE 1]

\* lines 197-201: good_spaxels of run_fit_continuum for row r
good_spaxels_continuum(r) ==
    [i \in Ys |->
        IF \/ Truthy(params.snr_min) /\ Lt(snr_cont[<<i, r>>], params.snr_min)
           \/ Truthy(params.snr_max) /\ Ge(snr_cont[<<i, r>>], params.snr_max)
        THEN NaN ELSE 1]

\* lines 422-426: good_spaxels of run_fit_elines for row r
good_spaxels_elines(r) ==
    [i \in Ys |->
        IF \/ Truthy(params.snr_min) /\ Lt(snr_elines[<<i, r>>], params.snr_min)
           \/ Truthy(params.snr_max) /\ Gt(snr_elines[<<i, r>>], params.snr_max)
        THEN NaN ELSE 1]

\* line 204: specs = [data[:,i,row] * good_spaxels[i] for i in range(NAXIS2)]
BuildSpecs(cube, r) ==
    [i \in Ys |->
        << [l \in Lams |-> Mul(cube[<<i, r>>][l], good_spaxels_continuum(r)[i])] >>]

\* lines 430-431: specerrs = [[data[:,i,row] * good_spaxels[i],
\*                             error[:,i,row] * good_spaxels[i]] for i in ...]
BuildSpecerrs(cube, r) ==
    [i \in Ys |->
        << [l \in Lams |-> Mul(cube[<<i, r>>][l], good_spaxels_elines(r)[i])],
           [l \in Lams |-> Mul(error[<<i, r>>][l], good_spaxels_elines(r)[i])] >>]

RowInputs(cube, r) ==
    IF stage = "continuum" THEN BuildSpecs(cube, r) ELSE BuildSpecerrs(cube, r)

\* fit_func = partial(brian_cof.lowess_fit, ...) (line 180) or
\* partial(brian_elf.els_mpfit, ...) (line 410)
fit_func(x) == IF stage = "continuum" THEN lowess_fit(x[1]) ELSE els_mpfit(x)

\* the results in another order than the inputs (last input first)
MapResults_reversed(inputs) == [i \in Ys |-> fit_func(inputs[NAXIS2 - 1 - i])]

\* pool.map(fit_func, specs) and map(fit_func, specs): one result per input,
\* in the order of the inputs
MapResults(inputs) == [i \in Ys |-> fit_func(inputs[i])]

\* ---------------------------------------------- continuum subtraction
\* np.nanmax(snr_cont): the largest valid SNR, nan if there is none
nanmax(map) ==
    IF \A s \in indices : isnan(map[s]) THEN NaN
    ELSE CHOOSE v \in {map[s] : s \in indices} :
            ~isnan(v) /\ \A s \in indices : isnan(map[s]) \/ map[s] <= v

\* lines 389-393: the bracket's upper limit
Ulim(e) == IF e.umax THEN Add(nanmax(snr_cont), 1) ELSE e.ulim

\* (snr_cont>=llim)*(snr_cont<ulim)
InBracket(e, s) ==
    /\ Ge(snr_cont[s], e.llim)
    /\ ~isnan(Ulim(e)) /\ Lt(snr_cont[s], Ulim(e))

\* lines 396-398: data[:,mask] -= cont_lowess[:,mask] for one bracket
SubtractOne(cube, e) ==
    [s \in indices |->
        IF e.src = "lowess" /\ InBracket(e, s)
        THEN [l \in Lams |-> Sub(cube[s][l], cont_lowess[s][l])]
        ELSE cube[s]]

RECURSIVE SubtractAll(_, _)
\* lines 383-401: the loop over the brackets of params['which_cont_sub']
SubtractAll(cube, table) ==
    IF table = <<>> THEN cube
    ELSE SubtractAll(SubtractOne(cube, Head(table)), Tail(table))

\* a table check ahead of the loop of lines 383-401: overlapping brackets
\* raise as well
SubtractionRaises_overlap(table) ==
    \/ \E k \in DOMAIN table : table[k].src = "ppxf"
    \/ \E j, k \in DOMAIN table :
          j # k /\ table[j].llim < Ulim(table[k]) /\ table[k].llim < Ulim(table[j])

\* line 401 reads cont_ppfx, a name that is bound nowhere: a bracket whose
\* source is 'ppxf' raises NameError
SubtractionRaises(table) == \E k \in DOMAIN table : table[k].src = "ppxf"

\* --------------------------------------- run_fit_continuum, run_fit_elines
\* whether a process is inside a fit run
Running == pc \notin {"idle", "exit"}

AllDone == done = Ys

\* the history entry of a run that ended
RunRecord(result) == [start |-> start_row, end |-> end_row, result |-> result, row |-> row]

\* what the process reports when it dies of an exception nobody catches: a
\* traceback, which names the exception and no row
Traceback(exc) == [kind |-> "traceback", exc |-> exc, row |-> None]

\* sys.exit('Multiprocessing ... fitting interrupted at row %i' % row)
SysExit(r) == [kind |-> "sysexit", exc |-> "SystemExit", row |-> r]

NoExit == [kind |-> "none", exc |-> "", row |-> None]

\* the pool of a process that dies: the workers are daemons and go with it
PoolAtDeath == IF pool.st \in {"run", "closed"} THEN [pool EXCEPT !.st = "terminated"] ELSE pool

NoPool == [st |-> "none", processes |-> None]

\* a run that empties params['tmp_loc'] before it starts
RunFit_cleartmp(first, last) ==
    /\ ~Running
    /\ Len(hist) < MaxRuns
    /\ asm_pc = "none"
    /\ start_row' = first
    /\ end_row' = last
    /\ row' = first
    /\ files0' = files
    /\ files' = [f \in FileNames |-> Absent]
    /\ specs' = <<>>
    /\ conts' = <<>>
    /\ done' = {}
    /\ pool' = NoPool
    /\ IF stage = "elines" /\ SubtractionRaises(params.which_cont_sub)
       THEN /\ pc' = "exit"
            /\ exit_msg' = Traceback("NameError")
            /\ run_data' = data
            /\ hist' = Append(hist, [start |-> first, end |-> last,
                                     result |-> "crashed", row |-> first])
       ELSE /\ pc' = "row"
            /\ exit_msg' = NoExit
            /\ run_data' = IF stage = "elines"
                           THEN SubtractAll(data, params.which_cont_sub)
                           ELSE data
            /\ hist' = hist
    /\ UNCHANGED <<rawVars, nameVars, apVars, cfgVars, fn_list, asmVars>>

\* lines 152-190 and 344-413: a run is started with a row range; it loads the
\* cube and the SNR maps, and run_fit_elines subtracts the continuum.  The
\* defaults of start_row and end_row are 0 and nrows-1.  The histories
\* explored hold at most MaxRuns runs, and assemble the cube after them.
RunFit(first, last) ==
    /\ ~Running
    /\ Len(hist) < MaxRuns
    /\ asm_pc = "none"
    /\ start_row' = first
    /\ end_row' = last
    /\ row' = first
    /\ files0' = files
    /\ specs' = <<>>
    /\ conts' = <<>>
    /\ done' = {}
    /\ pool' = NoPool
    /\ IF stage = "elines" /\ SubtractionRaises(params.which_cont_sub)
       THEN /\ pc' = "exit"
            /\ exit_msg' = Traceback("NameError")
            /\ run_data' = data
            /\ hist' = Append(hist, [start |-> first, end |-> last,
                                     result |-> "crashed", row |-> first])
       ELSE /\ pc' = "row"
            /\ exit_msg' = NoExit
            /\ run_data' = IF stage = "elines"
                           THEN SubtractAll(data, params.which_cont_sub)
                           ELSE data
            /\ hist' = hist
    /\ UNCHANGED <<rawVars, nameVars, apVars, cfgVars, files, fn_list, asmVars>>

\* lines 193-222 and 417-449: the top of the row loop builds the row's inputs
\* and, with multiprocessing, sets up the pool.  A method for which params
\* holds no '<method>_snr_min' raises KeyError at line 198.
RowBegin ==
    /\ pc = "row"
    /\ row <= end_row
    /\ done' = {}
    /\ conts' = <<>>
    /\ IF stage = "continuum" /\ method \notin {"lowess", "ppxf"}
       THEN /\ pc' = "exit"
            /\ exit_msg' = Traceback("KeyError")
            /\ hist' = Append(hist, RunRecord("crashed"))
            /\ UNCHANGED <<specs, pool>>
       ELSE /\ specs' = RowInputs(run_data, row)
            /\ pool' = IF ~params.multiprocessing.on THEN NoPool
                       ELSE IF params.multiprocessing.isint
                            THEN [st |-> "run", processes |-> params.multiprocessing.n]
                            ELSE [st |-> "run", processes |-> None]
            /\ pc' = "map"
            /\ UNCHANGED <<exit_msg, hist>>
    /\ UNCHANGED <<rawVars, nameVars, apVars, cfgVars, files, fn_list, asmVars, files0,
                   start_row, end_row, row, run_data>>

\* lines 227 and 245 with method 'ppxf': fit_func was never bound (lines
\* 185-189), the call raises NameError
MapNameError ==
    /\ pc = "map"
    /\ stage = "continuum" /\ method = "ppxf"
    /\ pc' = "exit"
    /\ exit_msg' = Traceback("NameError")
    /\ pool' = PoolAtDeath
    /\ hist' = Append(hist, RunRecord("crashed"))
    /\ UNCHANGED <<rawVars, nameVars, apVars, cfgVars, files, fn_list, asmVars, files0,
                   start_row, end_row, row, run_data, specs, done, conts>>

\* the 'ppxf' branch with a strategy connected (line 188 uncommented)
FitFuncBound_ppxf == stage = "elines" \/ method \in {"lowess", "ppxf"}

\* lines 179-189 and 410: fit_func is bound by the 'lowess' branch and by
\* run_fit_elines, and by nothing else
FitFuncBound == stage = "elines" \/ method = "lowess"

\* a worker of the pool returns the fit of spaxel j; the workers take the
\* spaxels in any order, and go on after the main process was interrupted
\* until the pool is joined
WorkerFit(j) ==
    /\ pc \in {"map", "int_close", "int_join"}
    /\ pool.st \in {"run", "closed"}
    /\ FitFuncBound
    /\ j \notin done
    /\ done' = done \cup {j}
    /\ UNCHANGED <<rawVars, nameVars, apVars, cfgVars, files, fn_list, asmVars, files0, hist,
                   pc, start_row, end_row, row, run_data, specs, conts, pool, exit_msg>>

\* line 245: map(fit_func, specs) fits the spaxels one by one, in order
SeqFit(j) ==
    /\ pc = "map"
    /\ pool.st = "none"
    /\ FitFuncBound
    /\ j \notin done
    /\ \A k \in Ys : k < j => k \in done
    /\ done' = done \cup {j}
    /\ UNCHANGED <<rawVars, nameVars, apVars, cfgVars, files, fn_list, asmVars, files0, hist,
                   pc, start_row, end_row, row, run_data, specs, conts, pool, exit_msg>>

\* the else clause of lines 234-236 left out: the file is written while the
\* pool is still there
MapReturn_noclose ==
    /\ pc = "map"
    /\ FitFuncBound
    /\ AllDone
    /\ conts' = MapResults(specs)
    /\ pc' = "open"
    /\ UNCHANGED <<rawVars, nameVars, apVars, cfgVars, files, fn_list, asmVars, files0, hist,
                   start_row, end_row, row, run_data, specs, done, pool, exit_msg>>

\* lines 227 and 245: the map returns once every spaxel of the row has a result
MapReturn ==
    /\ pc = "map"
    /\ FitFuncBound
    /\ AllDone
    /\ conts' = MapResults(specs)
    /\ pc' = IF pool.st = "none" THEN "open" ELSE "close"
    /\ UNCHANGED <<rawVars, nameVars, apVars, cfgVars, files, fn_list, asmVars, files0, hist,
                   start_row, end_row, row, run_data, specs, done, pool, exit_msg>>

\* lines 228-229 and 455-456: KeyboardInterrupt reaches the main process while
\* it waits in pool.map; the except clause takes over
Interrupt ==
    /\ pc = "map"
    /\ pool.st = "run"
    /\ FitFuncBound
    /\ pc' = "int_close"
    /\ UNCHANGED <<rawVars, nameVars, apVars, cfgVars, files, fn_list, asmVars, files0, hist,
                   start_row, end_row, row, run_data, specs, done, conts, pool, exit_msg>>

\* lines 231 and 235 (458, 462): pool.close()
PoolClose ==
    /\ pc \in {"close", "int_close"}
    /\ pool' = [pool EXCEPT !.st = "closed"]
    /\ pc' = IF pc = "close" THEN "join" ELSE "int_join"
    /\ UNCHANGED <<rawVars, nameVars, apVars, cfgVars, files, fn_list, asmVars, files0, hist,
                   start_row, end_row, row, run_data, specs, done, conts, exit_msg>>

\* pool.terminate() in place of close() and join(): the pool is gone at once,
\* whatever the workers were doing
PoolJoin_nowait ==
    /\ pc \in {"join", "int_join"}
    /\ pool' = [pool EXCEPT !.st = "joined"]
    /\ IF pc = "join"
       THEN /\ pc' = "open"
            /\ UNCHANGED <<exit_msg, hist>>
       ELSE /\ pc' = "exit"
            /\ exit_msg' = SysExit(row)
            /\ hist' = Append(hist, RunRecord("interrupted"))
    /\ UNCHANGED <<rawVars, nameVars, apVars, cfgVars, files, fn_list, asmVars, files0,
                   start_row, end_row, row, run_data, specs, done, conts>>

\* lines 232-233 and 236 (459-460, 463): pool.join() returns when the workers
\* have finished the work they were given and exited; in the except clause
\* sys.exit then reports the row
PoolJoin ==
    /\ pc \in {"join", "int_join"}
    /\ AllDone
    /\ pool' = [pool EXCEPT !.st = "joined"]
    /\ IF pc = "join"
       THEN /\ pc' = "open"
            /\ UNCHANGED <<exit_msg, hist>>
       ELSE /\ pc' = "exit"
            /\ exit_msg' = SysExit(row)
            /\ hist' = Append(hist, RunRecord("interrupted"))
    /\ UNCHANGED <<rawVars, nameVars, apVars, cfgVars, files, fn_list, asmVars, files0,
                   start_row, end_row, row, run_data, specs, done, conts>>

\* a KeyboardInterrupt outside the try of lines 226-228 (in the sequential
\* map, around the writing of the file), or the process being killed: nothing
\* catches it
Crash ==
    /\ \/ pc = "map" /\ pool.st = "none" /\ FitFuncBound
       \/ pc \in {"open", "dump"}
    /\ pc' = "exit"
    /\ exit_msg' = Traceback("KeyboardInterrupt")
    /\ pool' = PoolAtDeath
    /\ hist' = Append(hist, RunRecord("crashed"))
    /\ UNCHANGED <<rawVars, nameVars, apVars, cfgVars, files, fn_list, asmVars, files0,
                   start_row, end_row, row, run_data, specs, done, conts>>

\* lines 250-253 and 476-479: file = open(fn,'w') creates the row's file, or
\* empties the one that is there
FileOpen ==
    /\ pc = "open"
    /\ files' = [files EXCEPT ![PickleName(Stem, row)] = Truncated]
    /\ pc' = "dump"
    /\ UNCHANGED <<rawVars, nameVars, apVars, cfgVars, fn_list, asmVars, files0, hist,
                   start_row, end_row, row, run_data, specs, done, conts, pool, exit_msg>>

\* lines 254-255 and 480-484: pickle.dump and close; run_fit_elines also sets
\* fn_list['elines_pickle'] here, inside the loop; then the next row
FileDump ==
    /\ pc = "dump"
    /\ files' = [files EXCEPT ![PickleName(Stem, row)] = Pickled(conts)]
    /\ fn_list' = IF stage = "elines"
                  THEN [fn_list EXCEPT !["elines_pickle"] = ElinesStem]
                  ELSE fn_list
    /\ row' = row + 1
    /\ pc' = "row"
    /\ UNCHANGED <<rawVars, nameVars, apVars, cfgVars, asmVars, files0, hist,
                   start_row, end_row, run_data, specs, done, conts, pool, exit_msg>>

\* the loop taken to stop before end_row, as range(start_row, end_row) would
LoopEnd_exclusive ==
    /\ pc = "row"
    /\ row >= end_row
    /\ fn_list' = IF stage = "continuum"
                  THEN [fn_list EXCEPT ![PickleKey] = ContinuumStem(method)]
                  ELSE fn_list
    /\ pc' = "idle"
    /\ hist' = Append(hist, RunRecord("done"))
    /\ UNCHANGED <<rawVars, nameVars, apVars, cfgVars, files, asmVars, files0,
                   start_row, end_row, row, run_data, specs, done, conts, pool, exit_msg>>

\* lines 257-262 and 486-488: the loop is over; run_fit_continuum sets
\* fn_list[method+'_pickle'] and the function returns
LoopEnd ==
    /\ pc = "row"
    /\ row > end_row
    /\ fn_list' = IF stage = "continuum"
                  THEN [fn_list EXCEPT ![PickleKey] = ContinuumStem(method)]
                  ELSE fn_list
    /\ pc' = "idle"
    /\ hist' = Append(hist, RunRecord("done"))
    /\ UNCHANGED <<rawVars, nameVars, apVars, cfgVars, files, asmVars, files0,
                   start_row, end_row, row, run_data, specs, done, conts, pool, exit_msg>>

\* ------------------------------------------------------------ cube assembly
\* os.path.isfile(fn) for the artifact of row r
isfile(stem, r) == files[PickleName(stem, r)].st # "absent"

\* every row is opened, whether its file is there or not
RowsLoaded_all(stem) == Rows

\* lines 299 and 543: the rows whose artifact is opened and unpickled
RowsLoaded(stem) == {r \in Rows : isfile(stem, r)}

\* open(fn,'r') raises IOError on a file that is not there and pickle.load
\* raises EOFError on a file that holds no complete pickle
LoadError(stem) ==
    IF \E r \in RowsLoaded(stem) : files[PickleName(stem, r)].st = "absent"
    THEN "IOError"
    ELSE IF \E r \in RowsLoaded(stem) : files[PickleName(stem, r)].st = "partial"
    THEN "EOFError"
    ELSE "none"

\* lines 286-306: cont_cube starts as nan's and takes the columns of every row
\* whose artifact is there: cont_cube[:,:,row] = np.array(conts).T
AssembleContinuum(stem) ==
    [s \in indices |->
        IF isfile(stem, s[2]) THEN files[PickleName(stem, s[2])].items[s[1]]
        ELSE NaNSpec]

\* run_make_continuum_cube(fn_list, params, suffix, method)
MakeContinuumCube ==
    /\ stage = "continuum"
    /\ ~Running
    /\ asm_at' = Len(hist)
    /\ IF fn_list[PickleKey] = ""
       THEN asm_pc' = "KeyError" /\ UNCHANGED cont_cube
       ELSE IF LoadError(ContinuumStem(method)) # "none"
       THEN asm_pc' = LoadError(ContinuumStem(method)) /\ UNCHANGED cont_cube
       ELSE asm_pc' = "done" /\ cont_cube' = AssembleContinuum(ContinuumStem(method))
    /\ UNCHANGED <<rawVars, nameVars, apVars, cfgVars, files, fn_list, runVars, hist, files0,
                   elines_fullspec_cube, elines_params_cube, elines_params_err,
                   elines_fit_status>>

\* np.zeros_like(ps[0]) * np.nan: a parameter vector of nan's
NaNParams == [p \in Planes |-> NaN]

\* "item.status in [1,2,3,4]"
Converged(status) == status \in {1, 2, 3, 4}

\* np.zeros_like(ps[0]) without the "* np.nan": zeros for a failed fit
ps_zeros(item) == IF ~Converged(item.status) THEN [p \in Planes |-> 0] ELSE item.params

\* lines 556-557: the parameters of a fit, nan's unless the fit converged
ps(item) == IF ~Converged(item.status) THEN NaNParams ELSE item.params

\* lines 559-560: the variances of a fit (errs[j]**2), nan's unless it converged
errs(item) ==
    IF ~Converged(item.status) THEN NaNParams
    ELSE [p \in Planes |-> Mul(item.perror[p], item.perror[p])]

\* brian_elf.els_spec(lams, p, be, method, inst): the spectrum of the fitted
\* lines, nan's for a parameter vector of nan's
els_spec(p) ==
    IF \E q \in Planes : isnan(p[q]) THEN NaNSpec
    ELSE [l \in Lams |-> SumOver({6 * k + 1 : k \in 0..(nlines - 1)}, p) + l]

\* the speed of light of brian_metadata, in the velocity unit of the fit
\* parameters (the velocities of the model are multiples of c)
c == 1

\* a / b in floating point, for the divisions by c and c**2
Div(a, b) == IF isnan(a) \/ isnan(b) THEN NaN ELSE a \div b

\* brian_elf.obs_sigma(sigma, zlams, inst, in_errs): the observed dispersion
\* in wavelength units, with the instrument's own added, and its variance
obs_sigma(sigma, zlams, in_errs) ==
    << Add(Mul(Div(sigma, c), zlams), 1),
       Add(Add(in_errs[1], in_errs[2]), in_errs[3]) >>

\* np.sqrt(2*np.pi) and 2*np.pi in thousandths: plane 6k of the two parameter
\* cubes holds the flux and its variance in units of 1/1000
Sqrt2PiE3 == 2507
TwoPiE3 == 6283

\* the flux with 2*np.pi in place of np.sqrt(2*np.pi)
DeriveLine_2pi(pv, ev, k) ==
    LET zlams == Mul(pv[6 * k], Add(1, Div(pv[6 * k + 2], c)))
        zlams_err == Div(Mul(Mul(pv[6 * k], pv[6 * k]), ev[6 * k + 2]), c * c)
        sigma_obs_A == obs_sigma(pv[6 * k + 3], zlams, <<ev[6 * k + 2], zlams_err, 0>>)
        pv1 == [pv EXCEPT ![6 * k] = Mul(TwoPiE3, Mul(pv[6 * k + 1], sigma_obs_A[1]))]
        ev1 == [ev EXCEPT ![6 * k] =
                  Mul(TwoPiE3,
                      Add(Mul(Mul(ev[6 * k + 1], ev[6 * k + 1]), sigma_obs_A[1]),
                          Mul(sigma_obs_A[2], Mul(pv1[6 * k + 1], pv1[6 * k + 1]))))]
    IN  <<pv1, ev1>>

\* the flux variance stored in plane 6k+1, the slot of the amplitude's
\* variance, instead of plane 6k
DeriveLine_slot1(pv, ev, k) ==
    LET zlams == Mul(pv[6 * k], Add(1, Div(pv[6 * k + 2], c)))
        zlams_err == Div(Mul(Mul(pv[6 * k], pv[6 * k]), ev[6 * k + 2]), c * c)
        sigma_obs_A == obs_sigma(pv[6 * k + 3], zlams, <<ev[6 * k + 2], zlams_err, 0>>)
        pv1 == [pv EXCEPT ![6 * k] = Mul(Sqrt2PiE3, Mul(pv[6 * k + 1], sigma_obs_A[1]))]
        ev1 == [ev EXCEPT ![6 * k + 1] =
                  Mul(TwoPiE3,
                      Add(Mul(Mul(ev[6 * k + 1], ev[6 * k + 1]), sigma_obs_A[1]),
                          Mul(sigma_obs_A[2], Mul(pv1[6 * k + 1], pv1[6 * k + 1]))))]
    IN  <<pv1, ev1>>

\* lines 583-594 for line k and one spaxel: pv and ev are the spaxel's
\* parameter and variance vectors; plane 6k of each is replaced
DeriveLine(pv, ev, k) ==
    LET zlams == Mul(pv[6 * k], Add(1, Div(pv[6 * k + 2], c)))
        zlams_err == Div(Mul(Mul(pv[6 * k], pv[6 * k]), ev[6 * k + 2]), c * c)
        sigma_obs_A == obs_sigma(pv[6 * k + 3], zlams, <<ev[6 * k + 2], zlams_err, 0>>)
        pv1 == [pv EXCEPT ![6 * k] = Mul(Sqrt2PiE3, Mul(pv[6 * k + 1], sigma_obs_A[1]))]
        ev1 == [ev EXCEPT ![6 * k] =
                  Mul(TwoPiE3,
                      Add(Mul(Mul(ev[6 * k + 1], ev[6 * k + 1]), sigma_obs_A[1]),
                          Mul(sigma_obs_A[2], Mul(pv1[6 * k + 1], pv1[6 * k + 1]))))]
    IN  <<pv1, ev1>>

RECURSIVE DeriveLines(_, _, _)
\* lines 579-594: "for (k,key) in enumerate(params['elines'].keys())", from
\* line k on
DeriveLines(pv, ev, k) ==
    IF k >= nlines THEN <<pv, ev>>
    ELSE LET d == DeriveLine(pv, ev, k) IN DeriveLines(d[1], d[2], k + 1)

\* lines 522-566: the fit record of spaxel s, if the artifact of its row is there
HasItem(s) == isfile(ElinesStem, s[2])
Item(s) == files[PickleName(ElinesStem, s[2])].items[s[1]]

\* lines 523-565: the parameter vector and the variance vector of spaxel s
\* before the derivation loop
FilledParams(s) == IF HasItem(s) THEN ps(Item(s)) ELSE NaNParams
FilledErrs(s) == IF HasItem(s) THEN errs(Item(s)) ELSE NaNParams

\* the status kept only for the fits that converged
FilledStatus_converged(s) ==
    IF HasItem(s) /\ Converged(Item(s).status) THEN Item(s).status ELSE NaN

\* lines 527, 552 and 566: the status of spaxel s in elines_fit_status, nan
\* where no artifact was read
FilledStatus(s) == IF HasItem(s) THEN Item(s).status ELSE NaN

\* run_make_elines_cube(fn_list, params, suffix)
MakeElinesCube ==
    /\ stage = "elines"
    /\ ~Running
    /\ asm_at' = Len(hist)
    /\ IF fn_list["elines_pickle"] = ""
       THEN /\ asm_pc' = "KeyError"
            /\ UNCHANGED <<elines_fullspec_cube, elines_params_cube,
                           elines_params_err, elines_fit_status>>
       ELSE IF LoadError(ElinesStem) # "none"
       THEN /\ asm_pc' = LoadError(ElinesStem)
            /\ UNCHANGED <<elines_fullspec_cube, elines_params_cube,
                           elines_params_err, elines_fit_status>>
       ELSE /\ asm_pc' = "done"
            /\ elines_params_cube' =
                 [s \in indices |-> DeriveLines(FilledParams(s), FilledErrs(s), 0)[1]]
            /\ elines_params_err' =
                 [s \in indices |-> DeriveLines(FilledParams(s), FilledErrs(s), 0)[2]]
            /\ elines_fit_status' =
                 [s \in indices |-> FilledStatus(s)]
            /\ elines_fullspec_cube' =
                 [s \in indices |-> IF HasItem(s) THEN els_spec(ps(Item(s))) ELSE NaNSpec]
    /\ UNCHANGED <<rawVars, nameVars, apVars, cfgVars, files, fn_list, runVars, hist, files0,
                   cont_cube>>

\* ------------------------------------------------------- the specifications
\* the aperture variables while no aperture cube is made
ApIdle ==
    /\ start_aps = [a \in 0..0 |-> [x |-> 0, y |-> 0, r |-> 0]]
    /\ flux = NaNMap
    /\ sort_index = [a \in 0..0 |-> 0]
    /\ ap_i = 0
    /\ ap_map = NaNMap
    /\ ap_spec_cube = NaNCube
    /\ ap_spec_err = NaNCube
    /\ ap_pc = "idle"

NaNParamsCube == [s \in indices |-> NaNParams]

\* no file name is being built
NameIdle ==
    /\ name_args = <<>>
    /\ name_fn = <<>>

\* no process runs, params['tmp_loc'] is empty, fn_list holds no pickle name
\* and no cube was assembled
NothingRun ==
    /\ files = [f \in FileNames |-> Absent]
    /\ files0 = [f \in FileNames |-> Absent]
    /\ fn_list = [k \in FnKeys |-> ""]
    /\ pc = "idle"
    /\ start_row = 0
    /\ end_row = NAXIS1 - 1
    /\ row = 0
    /\ run_data = data
    /\ specs = <<>>
    /\ done = {}
    /\ conts = <<>>
    /\ pool = NoPool
    /\ exit_msg = NoExit
    /\ hist = <<>>
    /\ cont_cube = NaNCube
    /\ elines_fullspec_cube = NaNCube
    /\ elines_params_cube = NaNParamsCube
    /\ elines_params_err = NaNParamsCube
    /\ elines_fit_status = NaNMap
    /\ asm_pc = "none"
    /\ asm_at = 0

\* the fit variables while an aperture cube is made
FitIdle ==
    /\ stage = "elines"
    /\ method = "lowess"
    /\ params = [snr_min |-> None, snr_max |-> None,
                 multiprocessing |-> [on |-> FALSE, isint |-> FALSE, n |-> 0],
                 which_cont_sub |-> <<>>]
    /\ snr_cont = SnrMap(0)
    /\ snr_elines = SnrMap(1)
    /\ cont_lowess = NaNCube
    /\ cont_ppxf = NaNCube
    /\ NothingRun

InitAp ==
    /\ \E d \in RawKinds : data = RawData(d) /\ error = RawError(d)
    /\ \E p \in DOMAIN FluxPatterns : flux = FluxMap(p)
    /\ start_aps \in ApLists
    /\ sort_index = [a \in DOMAIN start_aps |-> a]
    /\ ap_i = 0
    /\ ap_map = NaNMap
    /\ ap_spec_cube = NaNCube
    /\ ap_spec_err = NaNCube
    /\ ap_pc = "start"
    /\ FitIdle
    /\ NameIdle

NextAp == ApLoad \/ ApIter \/ ApSave

\* run_make_ap_cube on every aperture list, flux map and raw cube of the bounds
SpecAp == InitAp /\ [][NextAp]_vars

\* lines 370-376: the continuum cube of an earlier PPXF fit, a flat continuum
\* of 1 wherever the raw spectrum holds a number
PpxfCube == [s \in indices |-> [l \in Lams |-> IF AllNaN(data[s]) THEN NaN ELSE 1]]

\* The stage, its configuration and its inputs.  run_fit_elines runs with
\* method fixed; its continuum cube is the lowess continuum of the raw cube.
Init ==
    /\ \E d \in RawKinds : data = RawData(d) /\ error = RawError(d)
    /\ stage \in {"continuum", "elines"}
    /\ method \in IF stage = "continuum" THEN Methods ELSE {"lowess"}
    /\ params \in [snr_min : SnrMins, snr_max : SnrMaxs,
                   multiprocessing : Multiprocessing,
                   which_cont_sub : IF stage = "elines" THEN ContSubTables ELSE {<<>>}]
    /\ snr_cont = SnrMap(0)
    /\ snr_elines = SnrMap(1)
    /\ cont_lowess = [s \in indices |-> lowess_fit(data[s])]
    /\ cont_ppxf = PpxfCube
    /\ NothingRun
    /\ ApIdle
    /\ NameIdle

Next ==
    \/ \E first, last \in Rows : first <= last /\ RunFit(first, last)
    \/ RowBegin
    \/ MapNameError
    \/ \E j \in Ys : WorkerFit(j)
    \/ \E j \in Ys : SeqFit(j)
    \/ MapReturn
    \/ Interrupt
    \/ PoolClose
    \/ PoolJoin
    \/ Crash
    \/ FileOpen
    \/ FileDump
    \/ LoopEnd
    \/ MakeContinuumCube
    \/ MakeElinesCube

\* fit runs (first runs, interrupted runs, resumed runs and re-runs) of one
\* stage, and the assembly of its cube at any time between runs
Spec == Init /\ [][Next]_vars


\* two writes of row artifacts, by any two writers for any two rows
InitNames ==
    /\ data = RawData(0) /\ error = RawError(0)
    /\ ApIdle
    /\ FitIdle
    /\ name_args \in [1..2 -> [w : Writers, row : RowIndices]]
    /\ name_fn = [i \in 1..2 |-> <<>>]

NextNames == \E i \in 1..2 : MakeName(i)

\* the file names of lines 250-252 and 476-478 for every pair of writes
SpecNames == InitNames /\ [][NextNames]_vars
\* ------------------------------------------------- run_make_ap_cube: claims
\* aperture a's disk holds spaxel s: (px-x)^2 + (py-y)^2 <= r^2
Covers(a, s) ==
    (s[2] - start_aps[a].x) * (s[2] - start_aps[a].x)
      + (s[1] - start_aps[a].y) * (s[1] - start_aps[a].y)
    <= start_aps[a].r * start_aps[a].r

Covering(s) == {a \in DOMAIN start_aps : Covers(a, s)}

\* the peak reference value of aperture a
Peak(a) == flux[<<start_aps[a].y, start_aps[a].x>>]

\* peak p ranks above peak q in the processing order: a higher number, or nan
\* against a number
RanksAbove(p, q) == ~isnan(q) /\ (isnan(p) \/ p > q)

\* C1 as stated: for every spaxel covered by at least one aperture (all of
\* them with a valid peak), the id in the aperture map is the input index of
\* a covering aperture with the highest peak reference value.
C1_IdIsInputIndex ==
    ap_pc = "done" =>
        \A s \in indices :
            (Covering(s) # {} /\ \A a \in Covering(s) : ~isnan(Peak(a))) =>
                /\ ap_map[s] \in Covering(s)
                /\ \A a \in Covering(s) : Peak(a) <= Peak(ap_map[s])

\* C1 as amended: for every spaxel covered by at least one aperture, the id in
\* the aperture map is the position, in the processing order sort_index, of
\* the covering aperture that comes first in that order; no covering aperture
\* has a peak reference value that ranks above that aperture's.
C1_IdIsRankOfBrightest ==
    ap_pc = "done" =>
        \A s \in indices :
            Covering(s) # {} =>
                /\ ap_map[s] \in DOMAIN sort_index
                /\ sort_index[ap_map[s]] \in Covering(s)
                /\ \A j \in DOMAIN sort_index :
                      j < ap_map[s] => sort_index[j] \notin Covering(s)
                /\ \A a \in Covering(s) :
                      ~RanksAbove(Peak(a), Peak(sort_index[ap_map[s]]))

\* a spaxel inside two disks whose peaks differ got the rank of the brighter
\* aperture, which is not that aperture's input index
C1_Witness ==
    /\ ap_pc = "done"
    /\ \E s \in indices : \E a, b \in Covering(s) :
          /\ ~isnan(Peak(a)) /\ ~isnan(Peak(b)) /\ Peak(a) > Peak(b)
          /\ sort_index[ap_map[s]] = a
          /\ ap_map[s] # a

\* C8: a pass of the aperture loop never changes the id of a spaxel that
\* already has one.
C8_NeverReassigned ==
    [][\A s \in indices : ~isnan(ap_map[s]) => ap_map'[s] = ap_map[s]]_vars

\* the second aperture processed covers a spaxel that kept the id 0 of the first
C8_Witness ==
    /\ ap_pc = "loop"
    /\ ap_i = 2
    /\ \E s \in indices : ap_map[s] = 0 /\ Covers(sort_index[1], s)

RECURSIVE LinearSum(_, _, _)
\* the sum over the spaxels of S of the samples cube[s][l], nan counted as 0
LinearSum(cube, S, l) ==
    IF S = {} THEN 0
    ELSE LET s == CHOOSE t \in S : TRUE
         IN  (IF cube[s][l] = NaN THEN 0 ELSE cube[s][l])
               + LinearSum(cube, S \ {s}, l)

\* C9: at the end every spaxel assigned to an aperture carries, at every
\* wavelength, the sum of the raw signal (and, in the error cube, of the raw
\* error) over all spaxels finally assigned to that aperture, invalid samples
\* counted as zero.
C9_IntegratedSpectrum ==
    ap_pc = "done" =>
        \A s \in indices :
            ~isnan(ap_map[s]) =>
                LET S == {t \in indices : ap_map[t] = ap_map[s]}
                IN  \A l \in Lams :
                      /\ ap_spec_cube[s][l] = LinearSum(data, S, l)
                      /\ ap_spec_err[s][l] = LinearSum(error, S, l)

\* an aperture that lost a spaxel of its disk to a brighter one, and that has
\* an invalid raw sample among its members, has been summed
C9_Witness ==
    /\ ap_pc = "done"
    /\ \E a \in DOMAIN start_aps : \E s, t \in indices :
          /\ Covers(sort_index[a], s) /\ ap_map[s] # a
          /\ ap_map[t] = a
          /\ \E u \in indices : \E l \in Lams : ap_map[u] = a /\ isnan(data[u][l])

\* C10: at the end a spaxel is nan in the aperture map, and nan at every
\* wavelength of the spectrum cube and of the error cube, exactly if it lies
\* in no aperture's disk.
C10_UnassignedIffUncovered ==
    ap_pc = "done" =>
        \A s \in indices :
            /\ isnan(ap_map[s]) <=> Covering(s) = {}
            /\ \A l \in Lams :
                  /\ isnan(ap_spec_cube[s][l]) <=> Covering(s) = {}
                  /\ isnan(ap_spec_err[s][l]) <=> Covering(s) = {}

\* a run that left one spaxel outside every disk and put another, all of whose
\* raw samples are invalid, on the rim of a disk
C10_Witness ==
    /\ ap_pc = "done"
    /\ \E s \in indices : Covering(s) = {}
    /\ \E s \in indices : \E a \in Covering(s) :
          /\ start_aps[a].r > 0
          /\ s # <<start_aps[a].y, start_aps[a].x>>
          /\ \A l \in Lams : isnan(data[s][l])


\* C11 as stated: the processing order is descending in the peak reference
\* value and stable for ties: of two apertures with equal peak value, the one
\* that comes first in the input is processed first.
C11_StableDescending ==
    ap_pc # "start" =>
        \A i, j \in DOMAIN sort_index :
            i < j =>
                /\ ~RanksAbove(Peak(sort_index[j]), Peak(sort_index[i]))
                /\ Peak(sort_index[i]) = Peak(sort_index[j])
                      => sort_index[i] < sort_index[j]

\* C11 as amended: the processing order holds every aperture index once and
\* is descending in the peak reference value, apertures whose peak is nan
\* first; nothing is said of the order of apertures with equal peak values.
C11_DescendingOrder ==
    ap_pc # "start" =>
        /\ \A a \in DOMAIN start_aps :
              Cardinality({i \in DOMAIN sort_index : sort_index[i] = a}) = 1
        /\ \A i, j \in DOMAIN sort_index :
              i < j => ~RanksAbove(Peak(sort_index[j]), Peak(sort_index[i]))

\* two apertures centred on different spaxels with the same valid peak value
\* are processed against their input order, ahead of nothing brighter
C11_Witness ==
    /\ ap_pc = "done"
    /\ naps = 2
    /\ <<start_aps[0].y, start_aps[0].x>> # <<start_aps[1].y, start_aps[1].x>>
    /\ Peak(0) = Peak(1) /\ ~isnan(Peak(0))
    /\ sort_index[0] = 1 /\ sort_index[1] = 0

\* ------------------------------------------------- claims of the fit stages
\* the cube a run fits: the raw cube, continuum-subtracted for the line fit
FitData == IF stage = "elines" THEN SubtractAll(data, params.which_cont_sub) ELSE data

\* what one uninterrupted run over all rows stores for spaxel s
OneRun(s) == fit_func(RowInputs(FitData, s[2])[s[1]])

\* the history is: a run over all rows that stopped at row k without
\* finishing, then a run from row k to the last row that finished
ResumedAt(k) ==
    /\ Len(hist) = 2
    /\ hist[1].start = 0 /\ hist[1].end = NAXIS1 - 1
    /\ hist[1].result \in {"interrupted", "crashed"}
    /\ hist[1].row = k
    /\ hist[2].start = k /\ hist[2].end = NAXIS1 - 1
    /\ hist[2].result = "done"

\* the cubes assembled now are those of one uninterrupted run
CubesOfOneRun ==
    IF stage = "continuum"
    THEN cont_cube = [s \in indices |-> OneRun(s)]
    ELSE /\ elines_fit_status = [s \in indices |-> OneRun(s).status]
         /\ elines_params_cube =
              [s \in indices |-> DeriveLines(ps(OneRun(s)), errs(OneRun(s)), 0)[1]]
         /\ elines_params_err =
              [s \in indices |-> DeriveLines(ps(OneRun(s)), errs(OneRun(s)), 0)[2]]
         /\ elines_fullspec_cube = [s \in indices |-> els_spec(ps(OneRun(s)))]

\* C2: a run over all rows that is interrupted (or dies) at row k, followed by
\* a run started at row k that finishes, followed by the assembly of the
\* cube, gives the cube that one uninterrupted run and the assembly give.
C2_ResumeEquivalence ==
    (asm_pc = "done" /\ asm_at = 2 /\ \E k \in Rows : ResumedAt(k)) => CubesOfOneRun

\* a line fit interrupted at row 1 was resumed there and the cube assembled,
\* with a converged fit in the first row and one in the last
C2_Witness ==
    /\ stage = "elines"
    /\ asm_pc = "done" /\ asm_at = 2
    /\ ResumedAt(1)
    /\ hist[1].result = "interrupted"
    /\ \E i \in Ys : Converged(elines_fit_status[<<i, 0>>])
    /\ \E i \in Ys : Converged(elines_fit_status[<<i, NAXIS1 - 1>>])

\* the artifact of row r holds what this run fits for row r
WrittenByThisRun(r) ==
    files[PickleName(Stem, r)] = Pickled(MapResults(RowInputs(run_data, r)))

\* the artifact of row r is as it was when this run started
AsBeforeTheRun(r) == files[PickleName(Stem, r)] = files0[PickleName(Stem, r)]

\* the process ended in the except clause of the pool's map
ExitedFromHandler == pc = "exit" /\ exit_msg.kind = "sysexit"

\* the process died of a KeyboardInterrupt in the sequential map
DiedInSequentialMap ==
    pc = "exit" /\ exit_msg.exc = "KeyboardInterrupt" /\ conts = <<>>

\* C3 (as the code has it): with multiprocessing, a cancel while a row is
\* being fit closes and joins the pool, so the workers finish the row's fits
\* before the process exits; the results are never collected, no artifact is
\* written for that row, the exit message names the row, and the artifacts of
\* the rows this run completed are there in full.  Without multiprocessing
\* nothing catches the cancel: the process dies of the traceback, which names
\* no row, and again no artifact is written for the row.
C3_CancelClosesAndJoins ==
    /\ ExitedFromHandler =>
          /\ pool.st = "joined" /\ done = Ys
          /\ conts = <<>>
          /\ exit_msg.row = row
          /\ \A r \in Rows :
                IF start_row <= r /\ r < row THEN WrittenByThisRun(r)
                ELSE AsBeforeTheRun(r)
    /\ DiedInSequentialMap =>
          /\ pool.st = "none"
          /\ exit_msg.row = None
          /\ \A r \in Rows :
                IF start_row <= r /\ r < row THEN WrittenByThisRun(r)
                ELSE AsBeforeTheRun(r)

\* a run with a pool was cancelled in its second row, before any worker had
\* returned a fit of that row
C3_Witness ==
    /\ ExitedFromHandler
    /\ start_row = 0 /\ row = 1
    /\ files[PickleName(Stem, 0)].st = "full"
    /\ files[PickleName(Stem, 1)].st = "absent"
    /\ pool.processes = 2

\* C3 as stated: after a cancel while a row is being fit, the row's pool is
\* terminated, no artifact is written for the row, the exit reports the row
\* and the earlier artifacts are unchanged.
C3_CancelTerminatesPool ==
    (ExitedFromHandler \/ DiedInSequentialMap) =>
        /\ pool.st \in {"none", "terminated"}
        /\ exit_msg.row = row
        /\ \A r \in Rows :
              IF start_row <= r /\ r < row THEN WrittenByThisRun(r)
              ELSE AsBeforeTheRun(r)

\* C4 as stated: whenever no process is inside a run (the run returned, or
\* it was interrupted, or it died at any step), an artifact that exists
\* holds the fits of every spaxel of its row.
C4_ArtifactIsCompleteRow ==
    ~Running =>
        \A r \in Rows :
            isfile(Stem, r) =>
                /\ files[PickleName(Stem, r)].st = "full"
                /\ DOMAIN files[PickleName(Stem, r)].items = Ys

\* C5: in the assembled line cubes, a spaxel whose fit status is not one of
\* the converged ones has NaN in every plane of the parameter cube and of
\* the error cube, the flux planes included.
C5_FailedFitIsNaN ==
    (stage = "elines" /\ asm_pc = "done") =>
        \A s \in indices :
            elines_fit_status[s] \notin {1, 2, 3, 4} =>
                \A p \in Planes :
                    /\ elines_params_cube[s][p] = NaN
                    /\ elines_params_err[s][p] = NaN

\* the cube was assembled from an artifact that holds a fit which did not
\* converge and whose parameters are numbers
C5_Witness ==
    /\ stage = "elines" /\ asm_pc = "done"
    /\ \E s \in indices :
          /\ HasItem(s)
          /\ Item(s).status = 5
          /\ elines_fit_status[s] = 5
          /\ \A p \in Planes : Item(s).params[p] # NaN

\* the rows whose artifact is there
RowsPresent == {r \in Rows : files[PickleName(Stem, r)].st # "absent"}

\* the outputs of spaxel s are all NaN
AllOutputsNaN(s) ==
    IF stage = "continuum" THEN cont_cube[s] = NaNSpec
    ELSE /\ elines_fit_status[s] = NaN
         /\ elines_params_cube[s] = NaNParams
         /\ elines_params_err[s] = NaNParams
         /\ elines_fullspec_cube[s] = NaNSpec

\* the outputs of spaxel s are those of the record its row's artifact holds
FilledFromArtifact(s) ==
    LET item == files[PickleName(Stem, s[2])].items[s[1]] IN
    IF stage = "continuum" THEN cont_cube[s] = item
    ELSE /\ elines_fit_status[s] = item.status
         /\ elines_params_cube[s] = DeriveLines(ps(item), errs(item), 0)[1]
         /\ elines_params_err[s] = DeriveLines(ps(item), errs(item), 0)[2]
         /\ elines_fullspec_cube[s] = els_spec(ps(item))

\* C6: the assembly never fails over an absent artifact.  Given the stem of
\* the artifacts in fn_list and no unreadable artifact, it completes for
\* whatever subset of the rows has artifacts; the rows that have one are
\* filled from it and the rows that have none are NaN in every output.
C6_AbsentRowsAreNaN ==
    /\ asm_pc # "IOError"
    /\ asm_pc \notin {"none", "done"} =>
          \/ fn_list[PickleKey] = ""
          \/ \E r \in Rows : files[PickleName(Stem, r)].st = "partial"
    /\ asm_pc = "done" =>
          \A s \in indices :
              IF s[2] \in RowsPresent THEN FilledFromArtifact(s)
              ELSE AllOutputsNaN(s)

\* a cube was assembled when the last row had an artifact and the first had
\* none, and the last row holds a number
C6_Witness ==
    /\ asm_pc = "done"
    /\ RowsPresent = {NAXIS1 - 1}
    /\ stage = "continuum"
    /\ \E i \in Ys, l \in Lams : cont_cube[<<i, NAXIS1 - 1>>][l] # NaN
    /\ \A i \in Ys : cont_cube[<<i, 0>>] = NaNSpec

\* spaxel i of row r has a valid SNR below the configured minimum
BelowMin(i, r) ==
    /\ params.snr_min # None
    /\ snr_cont[<<i, r>>] # NaN
    /\ snr_cont[<<i, r>>] < params.snr_min

\* C7: in a continuum fit with a configured minimum SNR, a spaxel whose SNR
\* is below the minimum is handed to the fit as an all-NaN spectrum, is
\* all-NaN in the artifact of its row, and is all-NaN in the assembled
\* continuum cube.
C7_BelowMinIsInvalid ==
    (stage = "continuum" /\ method = "lowess") =>
        /\ pc = "map" => \A i \in Ys : BelowMin(i, row) => specs[i][1] = NaNSpec
        /\ \A r \in Rows, i \in Ys :
              (BelowMin(i, r) /\ files[PickleName(Stem, r)].st = "full")
                  => files[PickleName(Stem, r)].items[i] = NaNSpec
        /\ asm_pc = "done" =>
              \A s \in indices :
                  (BelowMin(s[1], s[2]) /\ s[2] \in RowsPresent)
                      => cont_cube[s] = NaNSpec

\* the continuum cube was assembled after a fit that gated out a spaxel whose
\* raw spectrum holds numbers, next to a spaxel that was fit
C7_Witness ==
    /\ stage = "continuum" /\ method = "lowess" /\ asm_pc = "done"
    /\ \E s \in indices :
          /\ BelowMin(s[1], s[2])
          /\ s[2] \in RowsPresent
          /\ \E l \in Lams : data[s][l] # NaN
          /\ cont_cube[s] = NaNSpec
    /\ \E s \in indices : cont_cube[s] # NaNSpec

\* the bracket table of the line fit
Table == params.which_cont_sub

\* the upper end of bracket e as a number ('max' is the largest SNR plus one)
High(e) == IF e.umax THEN nanmax(snr_cont) + 1 ELSE e.ulim

\* spaxel s has a defined continuum SNR in [low, high) of bracket e
InRange(e, s) ==
    /\ snr_cont[s] # NaN
    /\ e.llim <= snr_cont[s]
    /\ snr_cont[s] < High(e)

\* the brackets of the table that hold the SNR of spaxel s
BracketsOf(s) == {k \in DOMAIN Table : InRange(Table[k], s)}

\* two brackets of the table overlap, or the brackets leave a gap between
\* the lowest lower end and the highest upper end
Overlap ==
    \E j, k \in DOMAIN Table :
        j # k /\ Table[j].llim < High(Table[k]) /\ Table[k].llim < High(Table[j])

Gap ==
    \E v \in 0..3 :
        /\ \E j \in DOMAIN Table : Table[j].llim <= v
        /\ \E j \in DOMAIN Table : v < High(Table[j])
        /\ \A j \in DOMAIN Table : ~(Table[j].llim <= v /\ v < High(Table[j]))

\* a run of the line fit was started
LineFitStarted == stage = "elines" /\ (Running \/ Len(hist) > 0)

\* C12 as stated: with an overlap or a gap in the bracket table the line fit
\* stops before any row: no continuum is subtracted, no spaxel is dispatched
\* and no row artifact is written.
C12_InconsistentTableIsFatal ==
    (stage = "elines" /\ (Overlap \/ Gap)) =>
        /\ run_data = data
        /\ specs = <<>>
        /\ \A r \in Rows : files[PickleName(ElinesStem, r)].st = "absent"

\* C12 as amended: the bracket table is not checked.  A line fit whose table
\* names only the lowess continuum never stops over the table, whatever its
\* overlaps and gaps: the spectrum it fits for a spaxel is the raw spectrum
\* minus the lowess continuum once for every bracket that holds the spaxel's
\* SNR (twice in an overlap, not at all in a gap), and the rows are fit and
\* written as for any other table.  The one table that stops the run before
\* the first row is a table that names the 'ppxf' continuum.
C12_TableIsNotChecked ==
    LineFitStarted =>
        IF \E k \in DOMAIN Table : Table[k].src = "ppxf"
        THEN pc = "exit" /\ exit_msg.exc = "NameError"
        ELSE /\ exit_msg.exc \notin {"NameError", "KeyError"}
             /\ \A s \in indices, l \in Lams :
                   run_data[s][l] =
                      IF BracketsOf(s) = {} THEN data[s][l]
                      ELSE Sub(data[s][l],
                               Mul(Cardinality(BracketsOf(s)), cont_lowess[s][l]))

\* a line fit with overlapping brackets has finished: a spaxel in the overlap
\* had the continuum subtracted twice, and every row has its artifact
C12_Witness ==
    /\ stage = "elines" /\ Overlap
    /\ Len(hist) > 0 /\ hist[Len(hist)].result = "done"
    /\ \A r \in Rows : files[PickleName(ElinesStem, r)].st = "full"
    /\ \E s \in indices, l \in Lams :
          /\ Cardinality(BracketsOf(s)) = 2
          /\ cont_lowess[s][l] \notin {NaN, 0}
          /\ data[s][l] # NaN
          /\ run_data[s][l] = data[s][l] - 2 * cont_lowess[s][l]

\* a continuum run was asked for a method other than 'lowess'
NoStrategy == stage = "continuum" /\ method # "lowess"

\* C13 as stated: with a method that has no usable strategy the row loop is
\* never entered, no pool is created and no row artifact is written.
C13_NoStrategyIsFatalBeforeLoop ==
    NoStrategy =>
        /\ pc \in {"idle", "row", "exit"}
        /\ specs = <<>>
        /\ pool.st = "none"
        /\ \A f \in FileNames : files[f].st = "absent"

\* C13 as amended: with a method that has no usable strategy the run dies in
\* the first pass of the row loop, of an exception nobody raised on purpose:
\* KeyError at the SNR thresholds for a method params knows nothing of,
\* NameError at the map for 'ppxf', after the row's inputs were built and,
\* with multiprocessing, after the pool was created.  No spaxel is fit, no
\* row is completed, no artifact is written and fn_list gets no entry.
C13_NoStrategyDiesInFirstRow ==
    NoStrategy =>
        /\ done = {} /\ conts = <<>>
        /\ row = start_row
        /\ pc \in {"idle", "row", "map", "exit"}
        /\ pc = "idle" => hist = <<>>
        /\ pc = "exit" =>
              exit_msg = Traceback(IF method = "ppxf" THEN "NameError" ELSE "KeyError")
        /\ method # "ppxf" => pool.st = "none" /\ specs = <<>>
        /\ \A f \in FileNames : files[f].st = "absent"
        /\ fn_list[PickleKey] = ""

\* a 'ppxf' run with a pool of two died of the NameError after it had built
\* the row's inputs and created the pool
C13_Witness ==
    /\ NoStrategy /\ method = "ppxf"
    /\ pc = "exit" /\ exit_msg.exc = "NameError"
    /\ specs # <<>>
    /\ pool.st = "terminated" /\ pool.processes = 2

\* the lines of params['elines']
LineNos == 0..(nlines - 1)

\* the observed dispersion of line k at spaxel s and its variance, as
\* brian_elf.obs_sigma gives them for the fitted dispersion, the redshifted
\* wavelength of the line and the variances of velocity and wavelength
SigmaObserved(s, k) ==
    LET pv == FilledParams(s)
        ev == FilledErrs(s)
        zlams == Mul(pv[6 * k], Add(1, Div(pv[6 * k + 2], c)))
        zlams_err == Div(Mul(Mul(pv[6 * k], pv[6 * k]), ev[6 * k + 2]), c * c)
    IN  obs_sigma(pv[6 * k + 3], zlams, <<ev[6 * k + 2], zlams_err, 0>>)

\* C14: in the assembled parameter cube, plane 6k of every spaxel is
\* sqrt(2 pi) * amplitude * sigma_observed (in thousandths), with the
\* amplitude of plane 6k+1 and the observed dispersion of line k at the spaxel.
C14_FluxIsSqrt2PiASigma ==
    (stage = "elines" /\ asm_pc = "done") =>
        \A s \in indices, k \in LineNos :
            elines_params_cube[s][6 * k] =
                Mul(Sqrt2PiE3,
                    Mul(elines_params_cube[s][6 * k + 1], SigmaObserved(s, k)[1]))

\* a converged fit with a non-zero amplitude has a flux in the cube that is
\* a number, and differs from the reference wavelength the fit had there
C14_Witness ==
    /\ stage = "elines" /\ asm_pc = "done"
    /\ \E s \in indices :
          /\ HasItem(s) /\ Converged(Item(s).status)
          /\ elines_params_cube[s][1] > 0
          /\ elines_params_cube[s][0] # NaN
          /\ elines_params_cube[s][0] =
                Sqrt2PiE3 * elines_params_cube[s][1] * SigmaObserved(s, 0)[1]
          /\ elines_params_cube[s][0] # Item(s).params[0]

\* C15 as stated: in the assembled error cube, plane 6k of every spaxel is
\* 2 pi * (Var(amplitude) * sigma_observed + Var(sigma_observed) * amplitude^2)
\* (in thousandths), Var(amplitude) being the variance held in plane 6k+1 of
\* the error cube, taken once.
C15_FluxVariance ==
    (stage = "elines" /\ asm_pc = "done") =>
        \A s \in indices, k \in LineNos :
            elines_params_err[s][6 * k] =
                Mul(TwoPiE3,
                    Add(Mul(elines_params_err[s][6 * k + 1], SigmaObserved(s, k)[1]),
                        Mul(SigmaObserved(s, k)[2],
                            Mul(elines_params_cube[s][6 * k + 1],
                                elines_params_cube[s][6 * k + 1]))))

\* the rows this run has completed
RowsCompleted == {r \in Rows : start_row <= r /\ r < row}

\* a pool exists: it was created and not yet joined
PoolExists == pool.st \in {"run", "closed"}

\* what holds in every state of a run: the current row is in the range, every
\* earlier row of the run has its artifact, a pool exists only between the
\* building of the row's inputs and the writing of its artifact, and while
\* it exists the current row's artifact is not yet this run's
RowBarrier ==
    Running =>
        /\ start_row <= row /\ row <= end_row + 1
        /\ \A r \in RowsCompleted : WrittenByThisRun(r)
        /\ PoolExists => pc \in {"map", "close", "join", "int_close", "int_join"}
        /\ PoolExists => AsBeforeTheRun(row)
        /\ pc \in {"open", "dump"} => pool.st \in {"none", "joined"}

\* what holds of every step: within a run the row only moves to the next one,
\* and does so in the step that completes its artifact, with no pool left;
\* a pool is created only when no other pool exists; a fit of a spaxel is
\* only returned for the current row's inputs
RowStep ==
    /\ (Running /\ Running' /\ row' # row) =>
          /\ row' = row + 1
          /\ files'[PickleName(Stem, row)].st = "full"
          /\ ~PoolExists
    /\ (pool'.st = "run" /\ pool.st # "run") =>
          /\ ~PoolExists
          /\ \A r \in RowsCompleted : files[PickleName(Stem, r)].st = "full"
    /\ done' # done /\ done' # {} => specs = RowInputs(run_data, row) /\ row' = row

\* C16: rows are processed in increasing order and do not overlap: the pool
\* of a row is created after the artifact of the row before it was written
\* and is closed and joined before the row's own artifact is written, at
\* most one pool exists at a time, and no spaxel of the next row is fit
\* before the row's artifact exists.
C16_RowsDoNotOverlap == []RowBarrier /\ [][RowStep]_vars

\* the pool of the second row of a run is at work, one of its fits returned,
\* the artifact of the first row written and its pool gone with it
C16_Witness ==
    /\ Running /\ start_row = 0 /\ row = 1
    /\ pc = "map" /\ pool.st = "run" /\ pool.processes = 2
    /\ done # {} /\ done # Ys
    /\ files[PickleName(Stem, 0)].st = "full"
    /\ files[PickleName(Stem, 1)].st = "absent"

\* the input of spaxel j of row r: its spectrum (and error spectrum) of the
\* cube the run fits, all nan if the SNR thresholds mask the spaxel
InputOf(j, r) == RowInputs(FitData, r)[j]

\* C17: every row artifact whose write was completed holds one result per
\* spaxel of the row, and the result at position j is the fit of the input
\* of spaxel j, masked or not, with a pool of any size and without one.
C17_OneResultPerSpaxelInOrder ==
    \A r \in Rows :
        files[PickleName(Stem, r)].st = "full" =>
            /\ DOMAIN files[PickleName(Stem, r)].items = Ys
            /\ \A j \in Ys :
                  files[PickleName(Stem, r)].items[j] = fit_func(InputOf(j, r))

\* a pool of two has just fit a row with a masked spaxel (its raw spectrum
\* holds numbers, its input none) next to a spaxel that was not masked, and
\* the two results differ
C17_Witness ==
    /\ Running /\ pc = "row" /\ row > start_row
    /\ pool.st = "joined" /\ pool.processes = 2
    /\ files[PickleName(Stem, row - 1)].st = "full"
    /\ \E j, k \in Ys :
          /\ InputOf(j, row - 1)[1] = NaNSpec
          /\ data[<<j, row - 1>>] # NaNSpec
          /\ InputOf(k, row - 1)[1] # NaNSpec
          /\ files[PickleName(Stem, row - 1)].items[j]
                # files[PickleName(Stem, row - 1)].items[k]

\* the continuum cube a bracket names as its source
SourceOf(e) == IF e.src = "lowess" THEN cont_lowess ELSE cont_ppxf

\* C18 as stated: with a table of disjoint brackets, a started line fit works
\* on the raw cube with, for every spaxel whose continuum SNR lies in a
\* bracket, that bracket's continuum subtracted once; a spaxel in no bracket
\* (or with an undefined SNR) keeps its raw spectrum; the error cube is the
\* raw error cube.
C18_BracketSourceSubtractedOnce ==
    (LineFitStarted /\ ~Overlap) =>
        /\ exit_msg.exc # "NameError"
        /\ \A s \in indices, l \in Lams :
              run_data[s][l] =
                 IF BracketsOf(s) = {} THEN data[s][l]
                 ELSE LET k == CHOOSE j \in BracketsOf(s) : TRUE
                      IN  Sub(data[s][l], SourceOf(Table[k])[s][l])
        /\ \A i \in Ys :
              pc = "map" =>
                 specs[i][2] =
                    [l \in Lams |-> Mul(error[<<i, row>>][l], good_spaxels_elines(row)[i])]

\* C19: the name of a row artifact is a function of the writer (lowess
\* continuum, ppxf continuum, line fit) and the row index, and for one suffix
\* and one target two writes get the same name only if writer and row index
\* are the same, for row indices of any number of digits.
C19_NamesAreInjective ==
    (name_fn # <<>> /\ name_fn[1] # <<>> /\ name_fn[2] # <<>>) =>
        (name_fn[1] = name_fn[2] <=> name_args[1] = name_args[2])

\* the names of rows 0 and 10000 of the same writer were built: the second is
\* one character longer; and so were the names of one row under two writers
C19_Witness ==
    /\ name_fn # <<>> /\ name_fn[1] # <<>> /\ name_fn[2] # <<>>
    /\ \/ /\ name_args[1].w = name_args[2].w
          /\ name_args[1].row = 0 /\ name_args[2].row = 10000
          /\ Len(name_fn[2]) = Len(name_fn[1]) + 1
       \/ /\ name_args[1].w = "lowess" /\ name_args[2].w = "elines"
          /\ name_args[1].row = name_args[2].row
          /\ Len(name_fn[1]) > Len(name_fn[2])

\* the fit of spaxel j of row r failed: its status is not a converged one
FailedFit(j, r) == fit_func(InputOf(j, r)).status \notin {1, 2, 3, 4}

\* C20: a fit that returns a status outside the converged ones stops
\* nothing.  The artifact of its row holds the fit of every spaxel of the
\* row; a line fit ends only by finishing, by an interrupt or a kill, or by
\* the NameError of a 'ppxf' bracket; the assembly fails only over a missing
\* fn_list entry or an unreadable artifact; and the assembled status map
\* holds, for every spaxel of a row with an artifact, the status the fit
\* returned, a number.
C20_FailedFitStopsNothing ==
    stage = "elines" =>
        /\ \A r \in Rows :
              files[PickleName(ElinesStem, r)].st = "full" =>
                 \A j \in Ys :
                    files[PickleName(ElinesStem, r)].items[j] = fit_func(InputOf(j, r))
        /\ pc = "exit" =>
              \/ exit_msg.exc \in {"KeyboardInterrupt", "SystemExit"}
              \/ /\ exit_msg.exc = "NameError"
                 /\ \E k \in DOMAIN Table : Table[k].src = "ppxf"
        /\ asm_pc \notin {"none", "done"} =>
              \/ fn_list["elines_pickle"] = ""
              \/ \E r \in Rows : files[PickleName(ElinesStem, r)].st = "partial"
        /\ asm_pc = "done" =>
              \A s \in indices :
                 files[PickleName(ElinesStem, s[2])].st = "full" =>
                    /\ elines_fit_status[s] = fit_func(InputOf(s[1], s[2])).status
                    /\ elines_fit_status[s] # NaN

\* one run fit every row and the cube was assembled: a fit of the first row
\* failed with status 5, which the status map holds; the other spaxel of that
\* row and a spaxel of the row after it were fit and converged
C20_Witness ==
    /\ stage = "elines" /\ asm_pc = "done"
    /\ Len(hist) = 1 /\ hist[1].result = "done"
    /\ hist[1].start = 0 /\ hist[1].end = NAXIS1 - 1
    /\ \E j \in Ys :
          /\ FailedFit(j, 0)
          /\ elines_fit_status[<<j, 0>>] = 5
          /\ \E i \in Ys \ {j} : Converged(elines_fit_status[<<i, 0>>])
    /\ \E j \in Ys : Converged(elines_fit_status[<<j, NAXIS1 - 1>>])

\* C21: a row artifact, once written, is never rewritten, truncated or
\* deleted: whatever step is taken by a fit run (a first run, a re-run or a
\* resumed run) or by a cube assembler, a file that holds a complete row
\* holds the same row after the step.
C21_ArtifactsNeverMutated ==
    [][\A f \in DOMAIN files :
          files[f].st = "full" => files'[f] = files[f]]_vars

\* C22: the derivation loop of run_make_elines_cube leaves planes 6k+1..6k+5
\* of the parameter cube and of the error cube as they were filled from the
\* artifacts, for every line k, and the flux it puts in plane 6k of the
\* parameter cube is computed from the reference wavelength the fit of line
\* k had in that plane, whatever the loop wrote for the lines before k.
C22_DerivationChangesPlane6kOnly ==
    (stage = "elines" /\ asm_pc = "done") =>
        \A s \in indices, k \in LineNos :
            /\ \A j \in 1..5 :
                  /\ elines_params_cube[s][6 * k + j] = FilledParams(s)[6 * k + j]
                  /\ elines_params_err[s][6 * k + j] = FilledErrs(s)[6 * k + j]
            /\ elines_params_cube[s][6 * k] =
                  Mul(Sqrt2PiE3, Mul(FilledParams(s)[6 * k + 1], SigmaObserved(s, k)[1]))

\* a converged fit of two lines: both lines' slots 6k hold a flux that is not
\* the reference wavelength the fit had there, the second line's flux is not
\* what the first line's slot would have given, and the second line's
\* amplitude, velocity and dispersion are the fitted ones
C22_Witness ==
    /\ stage = "elines" /\ asm_pc = "done" /\ nlines >= 2
    /\ \E s \in indices :
          /\ HasItem(s) /\ Converged(Item(s).status)
          /\ elines_params_cube[s][0] \notin {NaN, Item(s).params[0]}
          /\ elines_params_cube[s][6] \notin {NaN, Item(s).params[6]}
          /\ Item(s).params[6] # Item(s).params[0]
          /\ elines_params_cube[s][6] #
                Sqrt2PiE3 * Item(s).params[7] *
                   obs_sigma(Item(s).params[9],
                             elines_params_cube[s][0] * (1 + Item(s).params[8] \div c),
                             <<0, 0, 0>>)[1]
          /\ \A j \in 1..5 : elines_params_cube[s][6 + j] = Item(s).params[6 + j]
          /\ Item(s).params[7] > 0 /\ Item(s).params[9] > 0
          /\ elines_params_err[s][7] = Item(s).perror[7] * Item(s).perror[7]

\* the rows of the run's range
RowRange == {r \in Rows : start_row <= r /\ r <= end_row}

\* the last run returned normally and nothing was run since
CompletedNormally ==
    /\ pc = "idle" /\ hist # <<>>
    /\ hist[Len(hist)].result = "done"
    /\ hist[Len(hist)].start = start_row /\ hist[Len(hist)].end = end_row

\* after a run that returned normally: every row of the range has its
\* artifact, holding what the run fits for the row, and every other file of
\* tmp_loc (other rows, other stems) is as it was when the run started
RangeWritten ==
    CompletedNormally =>
        /\ \A r \in RowRange : WrittenByThisRun(r)
        /\ \A f \in FileNames :
              f \notin {PickleName(Stem, r) : r \in RowRange} => files[f] = files0[f]

\* every step of a run: the fits of a row are collected once, for the
\* current row, which is in the range and does not move in that step; the row
\* moves only to the next one, in the step that writes the collected fits of
\* the row it leaves; and the only file a step changes is the current row's
RangeStep ==
    /\ (conts' # conts /\ conts' # <<>>) =>
          /\ conts = <<>>
          /\ row \in RowRange /\ row' = row
          /\ conts' = MapResults(RowInputs(run_data, row))
    /\ (Running /\ Running' /\ row' # row) =>
          /\ row' = row + 1
          /\ conts # <<>>
          /\ files'[PickleName(Stem, row)] = Pickled(conts)
    /\ \A f \in FileNames :
          files'[f] # files[f] => f = PickleName(Stem, row) /\ row \in RowRange

\* C23: a fit run that returns normally over the rows start_row..end_row
\* (end inclusive) has written one artifact for each row of the range, has
\* fit each of these rows once, and has created or changed no file of a row
\* outside the range.
C23_RangeWrittenOnce == []RangeWritten /\ [][RangeStep]_vars

\* two runs returned normally, the first over the first row only, the second
\* over the last row only: the second wrote the last row's artifact and left
\* the first row's, which the first run had written
C23_Witness ==
    /\ CompletedNormally /\ Len(hist) = 2
    /\ hist[1].result = "done" /\ hist[1].start = 0 /\ hist[1].end = 0
    /\ start_row = NAXIS1 - 1 /\ end_row = NAXIS1 - 1 /\ start_row > 0
    /\ files0[PickleName(Stem, 0)].st = "full"
    /\ files0[PickleName(Stem, NAXIS1 - 1)].st = "absent"
    /\ files[PickleName(Stem, NAXIS1 - 1)].st = "full"
    /\ files[PickleName(Stem, 0)] = files0[PickleName(Stem, 0)]
====
